---------------------------- MODULE Spec2Model ----------------------------
(***************************************************************************)
(* Card and Deck of OOP_EXAM_P2.py as a state machine.                     *)
(*                                                                         *)
(* A Python value is a record with a "type" field.  An enum member is      *)
(* represented by its .value; CardSuit and CardRank list the members in    *)
(* definition order, which is the order "for x in Enum" visits them.       *)
(*                                                                         *)
(* The deck state is `cards` (self._cards).  Every method call is one      *)
(* action; op, arg, pre, ret and raised record the last call, its          *)
(* argument, self._cards before the call, the returned value and the       *)
(* exception raised, so that a call's contract is a state predicate.       *)
(*                                                                         *)
(* Deck.__iter__ is a generator function: the call runs none of its body,  *)
(* and each next() runs it up to the following yield.  `gen` is the frame  *)
(* of the generator made by the latest __iter__ call: where it is          *)
(* suspended and its locals highest and lowest.  Other calls on the deck   *)
(* may happen while it is suspended.                                       *)
(***************************************************************************)
EXTENDS Integers, Sequences, FiniteSets

VARIABLES cards, op, arg, pre, ret, raised, nadds, gen, lhs, rhs, cmp

vars == <<cards, op, arg, pre, ret, raised, nadds, gen, lhs, rhs, cmp>>
deckVars == <<cards, op, arg, pre, ret, raised, nadds, gen>>
cardVars == <<lhs, rhs, cmp>>

---------------------------------------------------------------------------
(* Bounds of the model *)

\* add_card calls with a Card in one behaviour
MaxAdds == 2
\* shuffle is explored on decks of at most this many cards
MaxShuffleLen == 3
\* deck[i] is explored for the indices i within IndexSlack of -len, 0 or len
IndexSlack == 1

---------------------------------------------------------------------------
(* class CardSuit(Enum), class CardRank(Enum) *)

CLUBS == 1
DIAMONDS == 2
HEARTS == 3
SPADES == 4

TWO == 2
THREE == 3
FOUR == 4
FIVE == 5
SIX == 6
SEVEN == 7
EIGHT == 8
NINE == 9
TEN == 10
JACK == 11
QUEEN == 12
KING == 13
ACE == 14

CardSuit == <<CLUBS, DIAMONDS, HEARTS, SPADES>>
CardRank == <<TWO, THREE, FOUR, FIVE, SIX, SEVEN, EIGHT, NINE, TEN,
              JACK, QUEEN, KING, ACE>>

---------------------------------------------------------------------------
(* Python values *)

None == [type |-> "NoneType"]
NotImplemented == [type |-> "NotImplementedType"]
PyBool(b) == [type |-> "bool", val |-> b]
PyInt(i) == [type |-> "int", val |-> i]
PyStr(s) == [type |-> "str", val |-> s]
Self == [type |-> "Deck"]

\* Card.__init__
Card(suit, rank) == [type |-> "Card", suit |-> suit, rank |-> rank]

\* isinstance(x, Card)
IsCard(x) == x.type = "Card"

AllCards == {Card(CardSuit[s], CardRank[r]) :
                s \in DOMAIN CardSuit, r \in DOMAIN CardRank}

---------------------------------------------------------------------------
(* Tuple comparison of the host language, on tuples of integers *)

FirstDiff(t, u) ==
    LET n == IF Len(t) < Len(u) THEN Len(t) ELSE Len(u)
        d == {k \in 1..n : t[k] # u[k]}
    IN  IF d = {} THEN 0 ELSE CHOOSE k \in d : \A m \in d : k <= m

TupleEq(t, u) == Len(t) = Len(u) /\ FirstDiff(t, u) = 0

TupleLt(t, u) ==
    LET k == FirstDiff(t, u)
    IN  IF k = 0 THEN Len(t) < Len(u) ELSE t[k] < u[k]

TupleGt(t, u) ==
    LET k == FirstDiff(t, u)
    IN  IF k = 0 THEN Len(t) > Len(u) ELSE t[k] > u[k]

\* (self._rank.value, self._suit.value)
Key(c) == <<c.rank, c.suit>>

---------------------------------------------------------------------------
(* Card.__eq__, Card.__lt__, Card.__gt__ *)

__eq__(self, other) ==
    IF ~IsCard(other) THEN NotImplemented
    ELSE PyBool(TupleEq(Key(self), Key(other)))

\* Variant of __lt__: the suit compared before the rank
lt_suitFirst(self, other) ==
    IF ~IsCard(other) THEN NotImplemented
    ELSE PyBool(TupleLt(<<self.suit, self.rank>>, <<other.suit, other.rank>>))

__lt__(self, other) ==
    IF ~IsCard(other) THEN NotImplemented
    ELSE PyBool(TupleLt(Key(self), Key(other)))

__gt__(self, other) ==
    IF ~IsCard(other) THEN NotImplemented
    ELSE PyBool(TupleGt(Key(self), Key(other)))

---------------------------------------------------------------------------
(* Host-language list and builtin operations used by Deck *)

\* list.pop(i) for a valid 0-based index i: the item and the remaining list
ListPop(l, i) ==
    [item |-> l[i + 1],
     rest |-> SubSeq(l, 1, i) \o SubSeq(l, i + 2, Len(l))]

\* list[i]: negative indices count from the end, others raise IndexError
ListIndex(l, i) ==
    LET k == IF i < 0 THEN i + Len(l) ELSE i
    IN  IF k < 0 \/ k >= Len(l)
        THEN [ok |-> FALSE, item |-> None]
        ELSE [ok |-> TRUE, item |-> l[k + 1]]

\* max(l) on a non-empty list: the running maximum starts as l[0] and is
\* replaced, item by item from left to right, by an item that is > it.
\* MaxOver threads the running maximum through l[lo..hi] in that order.  The
\* range is halved, and the left half's result is looked at before the right
\* half starts, only to keep the evaluation shallow: both branches of that
\* test pass the same value on.
RECURSIVE MaxOver(_, _, _, _)
MaxOver(l, lo, hi, best) ==
    IF lo > hi THEN best
    ELSE IF lo = hi THEN (IF __gt__(l[lo], best).val THEN l[lo] ELSE best)
    ELSE LET mid == (lo + hi) \div 2
             left == MaxOver(l, lo, mid, best)
         IN  IF left = best THEN MaxOver(l, mid + 1, hi, best)
             ELSE MaxOver(l, mid + 1, hi, left)

builtin_max(l) == MaxOver(l, 2, Len(l), l[1])

\* min(l) on a non-empty list: as max, replacing by an item that is < it
RECURSIVE MinOver(_, _, _, _)
MinOver(l, lo, hi, best) ==
    IF lo > hi THEN best
    ELSE IF lo = hi THEN (IF __lt__(l[lo], best).val THEN l[lo] ELSE best)
    ELSE LET mid == (lo + hi) \div 2
             left == MinOver(l, lo, mid, best)
         IN  IF left = best THEN MinOver(l, mid + 1, hi, best)
             ELSE MinOver(l, mid + 1, hi, left)

builtin_min(l) == MinOver(l, 2, Len(l), l[1])

\* The draws of one random.shuffle of n items: rnd[i] = randbelow(i + 1)
RandBelow(n) == {f \in [1..(n - 1) -> 0..(n - 1)] : \A i \in 1..(n - 1) : f[i] <= i}

Swap(x, i, j) == [x EXCEPT ![i + 1] = x[j + 1], ![j + 1] = x[i + 1]]

\* random.shuffle(x): for i in reversed(range(1, len(x))): x[i], x[j] = x[j], x[i]
RECURSIVE ShuffleFrom(_, _, _)
ShuffleFrom(x, i, rnd) ==
    IF i < 1 THEN x ELSE ShuffleFrom(Swap(x, i, rnd[i]), i - 1, rnd)

random_shuffle(x, rnd) == ShuffleFrom(x, Len(x) - 1, rnd)

---------------------------------------------------------------------------
(* class Deck: each method maps self._cards (and its arguments) to the new  *)
(* self._cards, the value returned and the exception raised                 *)

NoValue == [type |-> "no value"]
Return(c, v) == [cards |-> c, ret |-> v, raised |-> "none"]
Raise(c, e) == [cards |-> c, ret |-> NoValue, raised |-> e]

\* [Card(suit, rank) for rank in CardRank], for one suit
ForRanks(suit) == [r \in 1..Len(CardRank) |-> Card(suit, CardRank[r])]

\* [Card(suit, rank) for suit in CardSuit for rank in CardRank]
RECURSIVE ForSuits(_)
ForSuits(s) ==
    IF s > Len(CardSuit) THEN <<>>
    ELSE ForRanks(CardSuit[s]) \o ForSuits(s + 1)

\* Variant of NewDeck: the loops nested the other way round
NewDeck_rankMajor ==
    [k \in 1..(Len(CardSuit) * Len(CardRank)) |->
        Card(CardSuit[((k - 1) % Len(CardSuit)) + 1],
             CardRank[((k - 1) \div Len(CardSuit)) + 1])]

NewDeck == ForSuits(1)

\* Deck.__init__(shuffle), with the draws of random.shuffle
__init__(shuffle, rnd) ==
    IF shuffle THEN random_shuffle(NewDeck, rnd) ELSE NewDeck

\* Variant of shuffle: drawing with replacement, as random.choices would
shuffle_withReplacement(self, rnd) ==
    Return([k \in 1..Len(self) |-> IF k = 1 THEN self[1] ELSE self[rnd[k - 1] + 1]],
           Self)

\* Deck.shuffle
shuffle(self, rnd) == Return(random_shuffle(self, rnd), Self)

\* Variant of draw: pop() instead of pop(0)
draw_popLast(self) ==
    IF Len(self) > 0
    THEN LET p == ListPop(self, Len(self) - 1) IN Return(p.rest, p.item)
    ELSE Return(self, None)

\* Variant of draw: no test for the empty deck, so that pop raises
draw_noGuard(self) ==
    IF Len(self) > 0
    THEN LET p == ListPop(self, 0) IN Return(p.rest, p.item)
    ELSE Raise(self, "IndexError")

\* Deck.draw
draw(self) ==
    IF Len(self) > 0
    THEN LET p == ListPop(self, 0) IN Return(p.rest, p.item)
    ELSE Return(self, None)

\* Variant of add_card: no isinstance test
add_card_noCheck(self, card) == Return(Append(self, card), Self)

\* Variant of add_card: insert(0, card) instead of append(card)
add_card_insertFront(self, card) ==
    IF ~IsCard(card) THEN Raise(self, "TypeError")
    ELSE Return(<<card>> \o self, Self)

\* Deck.add_card
add_card(self, card) ==
    IF ~IsCard(card) THEN Raise(self, "TypeError")
    ELSE Return(Append(self, card), Self)

\* Deck.__len__
__len__(self) == Len(self)

\* Variant of __getitem__: 1-based positions
getitem_oneBased(self, index) ==
    LET r == ListIndex(self, index - 1)
    IN  IF r.ok THEN Return(self, r.item) ELSE Raise(self, "IndexError")

\* Deck.__getitem__
__getitem__(self, index) ==
    LET r == ListIndex(self, index)
    IN  IF r.ok THEN Return(self, r.item) ELSE Raise(self, "IndexError")

\* Variant of max: the first card instead of the greatest
max_first(self) ==
    IF Len(self) > 0 THEN Return(self, self[1]) ELSE Return(self, None)

\* Deck.max
max(self) ==
    IF Len(self) > 0 THEN Return(self, builtin_max(self)) ELSE Return(self, None)

\* Deck.min
min(self) ==
    IF Len(self) > 0 THEN Return(self, builtin_min(self)) ELSE Return(self, None)

\* Deck.__iter__: the call returns a generator and runs nothing of the body
Generator == [type |-> "generator"]
NoFrame == [pc |-> "none", highest |-> NoValue, lowest |-> NoValue]
NewFrame == [pc |-> "created", highest |-> NoValue, lowest |-> NoValue]
Finished == [pc |-> "finished", highest |-> NoValue, lowest |-> NoValue]

__iter__(self) == Return(self, Generator)

Yield(g, v) == [gen |-> g, ret |-> v, raised |-> "none"]
StopIteration == [gen |-> Finished, ret |-> NoValue, raised |-> "StopIteration"]

\* Variant of __next__: the body as "yield self.max(); yield self.min()",
\* the minimum taken when the second value is asked for
next_lateMin(self, g) ==
    IF g.pc = "created"
    THEN LET highest == max(self).ret
             lowest == min(self).ret
         IN  IF highest # None /\ lowest # None
             THEN Yield([pc |-> "yield highest", highest |-> highest,
                         lowest |-> lowest], highest)
             ELSE StopIteration
    ELSE IF g.pc = "yield highest"
    THEN Yield([g EXCEPT !.pc = "yield lowest"], min(self).ret)
    ELSE StopIteration

\* next(g) on the generator of Deck.__iter__: the body of __iter__ from where
\* it is suspended to the following yield, or to its end
__next__(self, g) ==
    IF g.pc = "created"
    THEN LET highest == max(self).ret
             lowest == min(self).ret
         IN  IF highest # None /\ lowest # None
             THEN Yield([pc |-> "yield highest", highest |-> highest,
                         lowest |-> lowest], highest)
             ELSE StopIteration
    ELSE IF g.pc = "yield highest"
    THEN Yield([g EXCEPT !.pc = "yield lowest"], g.lowest)
    ELSE StopIteration

---------------------------------------------------------------------------
(* Inputs *)

ArgCards == {Card(CLUBS, TWO), Card(HEARTS, SEVEN), Card(SPADES, ACE)}
NonCards == {None, PyStr("Two of Clubs")}
Near(i, b) == i - b <= IndexSlack /\ b - i <= IndexSlack
Indices == {i \in -(Len(cards) + IndexSlack) .. (Len(cards) + IndexSlack) :
                Near(i, -Len(cards)) \/ Near(i, 0) \/ Near(i, Len(cards))}

---------------------------------------------------------------------------
(* The deck as a state machine *)

Call(name, a, r) ==
    /\ cards' = r.cards
    /\ op' = name
    /\ arg' = a
    /\ pre' = cards
    /\ ret' = r.ret
    /\ raised' = r.raised

\* deck = Deck(shuffle=False)
Init ==
    /\ cards = __init__(FALSE, <<>>)
    /\ op = "__init__"
    /\ arg = PyBool(FALSE)
    /\ pre = <<>>
    /\ ret = NoValue
    /\ raised = "none"
    /\ nadds = 0
    /\ gen = NoFrame
    /\ lhs = None
    /\ rhs = None
    /\ cmp = None

Shuffle ==
    /\ __len__(cards) <= MaxShuffleLen
    /\ \E rnd \in RandBelow(__len__(cards)) : Call("shuffle", None, shuffle(cards, rnd))
    /\ UNCHANGED <<nadds, gen, cardVars>>

Draw ==
    /\ Call("draw", None, draw(cards))
    /\ UNCHANGED <<nadds, gen, cardVars>>

AddCard ==
    \E x \in ArgCards \cup NonCards :
        /\ IsCard(x) => nadds < MaxAdds
        /\ Call("add_card", x, add_card(cards, x))
        /\ nadds' = IF IsCard(x) THEN nadds + 1 ELSE nadds
        /\ UNCHANGED <<gen, cardVars>>

GetItem ==
    /\ \E i \in Indices : Call("__getitem__", PyInt(i), __getitem__(cards, i))
    /\ UNCHANGED <<nadds, gen, cardVars>>

\* g = iter(deck): the generator followed from here on is the new one
Iter ==
    /\ Call("__iter__", None, __iter__(cards))
    /\ gen' = NewFrame
    /\ UNCHANGED <<nadds, cardVars>>

\* next(g) on the generator of the latest __iter__ call
IterNext ==
    /\ gen.pc # "none"
    /\ LET r == __next__(cards, gen)
       IN  /\ Call("next", None, [cards |-> cards, ret |-> r.ret, raised |-> r.raised])
           /\ gen' = r.gen
    /\ UNCHANGED <<nadds, cardVars>>

Max ==
    /\ Call("max", None, max(cards))
    /\ UNCHANGED <<nadds, gen, cardVars>>

Min ==
    /\ Call("min", None, min(cards))
    /\ UNCHANGED <<nadds, gen, cardVars>>

\* The calls that return at once
Next == Shuffle \/ Draw \/ AddCard \/ GetItem \/ Max \/ Min

Spec == Init /\ [][Next]_vars

\* The iteration, with the calls that add or remove cards between its steps
\* (shuffle keeps the cards, so it cannot change what max and min return)
NextIter == Iter \/ IterNext \/ Draw \/ AddCard

SpecIter == Init /\ [][NextIter]_vars

---------------------------------------------------------------------------
(* Card comparison on its own: the operands are drawn at the start and one  *)
(* step applies ==, < and > to them                                         *)

InitCard ==
    /\ cards = <<>>
    /\ op = "none"
    /\ arg = None
    /\ pre = <<>>
    /\ ret = NoValue
    /\ raised = "none"
    /\ nadds = 0
    /\ gen = NoFrame
    /\ lhs \in AllCards
    /\ rhs \in AllCards \cup NonCards
    /\ cmp = None

Compare ==
    /\ cmp = None
    /\ cmp' = [type |-> "results", eq |-> __eq__(lhs, rhs),
               lt |-> __lt__(lhs, rhs), gt |-> __gt__(lhs, rhs)]
    /\ UNCHANGED <<lhs, rhs, deckVars>>

NextCard == Compare

SpecCard == InitCard /\ [][NextCard]_vars

---------------------------------------------------------------------------
(* Vocabulary of the properties, stated without the model's operators *)

\* How often the card c occurs in the sequence s
Count(s, c) == Cardinality({i \in DOMAIN s : s[i] = c})

\* a is above b: the higher rank, and for equal ranks the higher suit
Above(a, b) == a.rank > b.rank \/ (a.rank = b.rank /\ a.suit > b.suit)

SameFace(a, b) == a.suit = b.suit /\ a.rank = b.rank

\* c is a member of s that no member of s is above / that is above no ...
IsGreatestOf(c, s) ==
    (\E i \in DOMAIN s : s[i] = c) /\ (\A i \in DOMAIN s : ~Above(s[i], c))
IsLeastOf(c, s) ==
    (\E i \in DOMAIN s : s[i] = c) /\ (\A i \in DOMAIN s : ~Above(c, s[i]))

\* s is the 52 cards suit-major then rank-minor: Clubs Two..Ace, Diamonds,
\* Hearts, Spades
IsSuitMajor(s) ==
    /\ Len(s) = 52
    /\ \A k \in 1..52 :
          s[k] = [type |-> "Card", suit |-> ((k - 1) \div 13) + 1,
                  rank |-> ((k - 1) % 13) + 2]

OneStep(b) == IF b THEN 1 ELSE 0

---------------------------------------------------------------------------
(* Properties *)

\* C1: draw() on a deck of N >= 1 cards returns the card that was at
\* position 0 and leaves exactly the former positions 1..N-1, in order.
C1_DrawTakesFront ==
    (op = "draw" /\ Len(pre) >= 1) =>
        /\ raised = "none"
        /\ ret = pre[1]
        /\ Len(cards) = Len(pre) - 1
        /\ \A i \in 1..Len(cards) : cards[i] = pre[i + 1]

C1_Witness ==
    /\ op = "draw"
    /\ Len(pre) >= 3
    /\ nadds > 0
    /\ ret = pre[1]
    /\ pre[1] # pre[Len(pre)]
    /\ Len(cards) = Len(pre) - 1

\* C2: add_card(x) with x not a Card raises TypeError and leaves the deck
\* with the same cards in the same order.
C2_AddNonCardRejected ==
    (op = "add_card" /\ arg.type # "Card") =>
        /\ raised = "TypeError"
        /\ cards = pre

C2_Witness ==
    /\ op = "add_card"
    /\ arg.type = "str"
    /\ raised = "TypeError"
    /\ Len(pre) > 0
    /\ cards = pre

\* C3: add_card(c) with c a Card always succeeds, puts c at the last
\* position, makes the deck one longer, keeps every earlier card at its
\* position and returns the deck itself.
C3_AddCardAppends ==
    (op = "add_card" /\ arg.type = "Card") =>
        /\ raised = "none"
        /\ ret = Self
        /\ Len(cards) = Len(pre) + 1
        /\ cards[Len(cards)] = arg
        /\ \A i \in 1..Len(pre) : cards[i] = pre[i]

\* a card already in the deck is added to a deck of several cards
C3_Witness ==
    /\ op = "add_card"
    /\ arg.type = "Card"
    /\ Len(pre) >= 2
    /\ \E i \in DOMAIN pre : pre[i] = arg
    /\ pre[1] # arg
    /\ Len(cards) = Len(pre) + 1

\* C4: on an empty deck draw(), max() and min() return None without raising
\* and the deck stays empty.
C4_EmptyDeckReturnsNone ==
    (op \in {"draw", "max", "min"} /\ Len(pre) = 0) =>
        /\ raised = "none"
        /\ ret = None
        /\ cards = <<>>

\* the deck was emptied by drawing every card, and is drawn from again
C4_Witness ==
    /\ op = "draw"
    /\ pre = <<>>
    /\ nadds = 0
    /\ ret = None
    /\ cards = <<>>

\* C5: shuffle() keeps the number of occurrences of every card, keeps the
\* length, and returns the deck itself.
C5_ShufflePreservesMultiset ==
    op = "shuffle" =>
        /\ raised = "none"
        /\ ret = Self
        /\ Len(cards) = Len(pre)
        /\ \A c \in AllCards : Count(cards, c) = Count(pre, c)

\* a deck holding a card twice is shuffled into another order
C5_Witness ==
    /\ op = "shuffle"
    /\ cards # pre
    /\ \E c \in AllCards : Count(pre, c) = 2
    /\ Len(pre) = MaxShuffleLen

\* C6 as amended: a next() of the iteration never changes the deck.  The
\* first next() yields the greatest card of the deck as it is then, or ends
\* the iteration if the deck is then empty; the value due second is the
\* least card of the deck as it was at the first next(), whatever is done to
\* the deck before the second next() yields it; the third next() ends the
\* iteration.  So an iteration yields two values or none.
C6_NextStep ==
    /\ op' = "__iter__" => (cards' = cards /\ gen'.pc = "created")
    /\ op' = "next" => cards' = cards
    /\ (op' = "next" /\ gen.pc = "created") =>
          IF Len(cards) = 0
          THEN raised' = "StopIteration" /\ gen'.pc = "finished"
          ELSE /\ raised' = "none"
               /\ gen'.pc = "yield highest"
               /\ IsGreatestOf(ret', cards)
               /\ IsLeastOf(gen'.lowest, cards)
               /\ (\A i, j \in DOMAIN cards : cards[i] = cards[j])
                     => gen'.lowest = ret'
    /\ (gen.pc = "yield highest" /\ op' # "__iter__") =>
          IF op' = "next"
          THEN raised' = "none" /\ ret' = gen.lowest /\ gen'.pc = "yield lowest"
          ELSE gen' = gen
    /\ (op' = "next" /\ gen.pc \in {"yield lowest", "finished"}) =>
          raised' = "StopIteration" /\ gen'.pc = "finished"

C6_IterYieldsSnapshotMaxThenMin == [][C6_NextStep]_vars

\* the second value is yielded after the deck has changed, and is not the
\* least card of the deck any more
C6_Witness ==
    /\ op = "next"
    /\ gen.pc = "yield lowest"
    /\ ret = gen.lowest
    /\ Len(cards) >= 2
    /\ ~IsLeastOf(ret, cards)

\* C6 as stated: the values an iteration yields are the deck's greatest card
\* and then the deck's least card.
C6_Original ==
    /\ (op = "next" /\ gen.pc = "yield highest") => IsGreatestOf(ret, cards)
    /\ (op = "next" /\ gen.pc = "yield lowest") => IsLeastOf(ret, cards)

\* C7: on a non-empty deck max() returns a member that no card of the deck
\* is greater than, min() a member that no card of the deck is less than,
\* and neither changes the deck.
C7_MaxMinAreExtremeMembers ==
    /\ (op = "max" /\ Len(pre) > 0) =>
          raised = "none" /\ cards = pre /\ IsGreatestOf(ret, pre)
    /\ (op = "min" /\ Len(pre) > 0) =>
          raised = "none" /\ cards = pre /\ IsLeastOf(ret, pre)

C7_Witness ==
    /\ op = "max"
    /\ Len(pre) >= 3
    /\ ret # pre[1]
    /\ ret # pre[Len(pre)]
    /\ IsGreatestOf(ret, pre)

\* C8: a deck constructed unshuffled holds 52 cards, every (suit, rank)
\* pair exactly once, suit-major then rank-minor, and the first draw()
\* from it returns the Two of Clubs.
C8_UnshuffledDeckOrder ==
    /\ op = "__init__" =>
          /\ Len(cards) = 52
          /\ \A s \in 1..4, r \in 2..14 :
                Count(cards, [type |-> "Card", suit |-> s, rank |-> r]) = 1
          /\ IsSuitMajor(cards)
          /\ cards[1] = [type |-> "Card", suit |-> 1, rank |-> 2]
    /\ (op = "draw" /\ IsSuitMajor(pre)) =>
          ret = [type |-> "Card", suit |-> 1, rank |-> 2]

C8_Witness ==
    /\ op = "draw"
    /\ IsSuitMajor(pre)
    /\ ret = Card(CLUBS, TWO)
    /\ Len(cards) = 51

\* C9: for two Cards exactly one of a < b, a == b, a > b holds; the higher
\* rank is the greater and for equal ranks the higher suit; a == b exactly
\* when suit and rank are both the same.
C9_CardTotalOrder ==
    (cmp # None /\ rhs.type = "Card") =>
        /\ cmp.lt.type = "bool" /\ cmp.eq.type = "bool" /\ cmp.gt.type = "bool"
        /\ OneStep(cmp.lt.val) + OneStep(cmp.eq.val) + OneStep(cmp.gt.val) = 1
        /\ cmp.gt.val = Above(lhs, rhs)
        /\ cmp.lt.val = Above(rhs, lhs)
        /\ cmp.eq.val = SameFace(lhs, rhs)

\* equal ranks, decided by the suit
C9_Witness ==
    /\ cmp # None
    /\ rhs.type = "Card"
    /\ lhs.rank = rhs.rank
    /\ lhs.suit < rhs.suit
    /\ cmp.lt.val

\* C10: deck[i] returns the card at 0-based position i when 0 <= i < len,
\* raises IndexError for every index that is out of range (every index on
\* an empty deck, every i >= len, every i < -len), and never changes the
\* deck.
C10_GetItem ==
    op = "__getitem__" =>
        LET i == arg.val
            n == Len(pre)
        IN  /\ cards = pre
            /\ (0 <= i /\ i < n) => (raised = "none" /\ ret = pre[i + 1])
            /\ (-n <= i /\ i < 0) => (raised = "none" /\ ret = pre[n + i + 1])
            /\ (n = 0 \/ i >= n \/ i < -n) => raised = "IndexError"

C10_Witness ==
    /\ op = "__getitem__"
    /\ arg.val = Len(pre)
    /\ Len(pre) > 0
    /\ raised = "IndexError"

===========================================================================
